---- MODULE Spec2Model ----
(***************************************************************************)
(* State-machine model of the aviator socket server (src/socket-server.js).*)
(*                                                                         *)
(* Multipliers are integers in hundredths (1.50 is 150).  Time is in       *)
(* milliseconds.  Every pending setTimeout / setInterval is an element of  *)
(* `timers` with the time remaining until it fires; the module-level       *)
(* handle variables only remember which pending timer they reference       *)
(* (field `held`), because the program never clears a handle when its      *)
(* timer fires and overwrites handles without cancelling.                  *)
(***************************************************************************)
EXTENDS Integers, Sequences, FiniteSets, TLC

----------------------------------------------------------------------------
(* Program constants                                                       *)

BETTING_PHASE_DURATION == 6000

WAIT_PHASE_DURATION == 3000

MULTIPLIER_UPDATE_INTERVAL == 100

\* crashPoint = null (before the first round)
NULL == 0

\* 1.00 in hundredths
ONE == 100

----------------------------------------------------------------------------
(* Bounds of the model                                                     *)

\* requests (POST /queue, /trigger-next, /force-start, the GET endpoints and a
\* viewer's request:state / request:round-info) in one behaviour
MaxRequests == 2

\* largest startRound / round_number a producer sends
MaxStart == 2

\* currentRound is not advanced beyond this value
MaxRound == 4

\* pending timers are not scheduled beyond this number
MaxTimers == 4

\* elapsed animation time is not tracked beyond this many milliseconds
\* (every timeToCrash of the model is smaller, so progress is 1 from here on)
MaxElapsed == 10000

\* crashes of one play are counted up to this number
MaxPlayCrashes == 2

\* progress values are the fractions 0 / GridSteps .. GridSteps / GridSteps
GridSteps == 100

\* granularity with which idle time passes between two timer deadlines
PassStep == 10 * MULTIPLIER_UPDATE_INTERVAL

\* crash points a producer sends in the general specification
Mults == {105, 110}

\* values of microRandomness, in ms: (Math.random() - 0.5) * 0.5 seconds
Jitters == {-250, 200}

Viewers == {"v1"}

----------------------------------------------------------------------------
(* Arithmetic of the curve engine                                          *)

\* Math.log(m / 100) / 0.08, in milliseconds, for m = 100 .. 200
LnTable ==
  << 0, 124, 248, 369, 490, 610, 728, 846, 962, 1077,
     1191, 1305, 1417, 1528, 1638, 1747, 1855, 1963, 2069, 2174,
     2279, 2383, 2486, 2588, 2689, 2789, 2889, 2988, 3086, 3183,
     3280, 3375, 3470, 3565, 3658, 3751, 3844, 3935, 4026, 4116,
     4206, 4295, 4383, 4471, 4558, 4645, 4730, 4816, 4901, 4985,
     5068, 5151, 5234, 5316, 5397, 5478, 5559, 5638, 5718, 5797,
     5875, 5953, 6030, 6107, 6184, 6260, 6335, 6410, 6485, 6559,
     6633, 6706, 6779, 6852, 6924, 6995, 7066, 7137, 7208, 7278,
     7347, 7417, 7485, 7554, 7622, 7690, 7757, 7824, 7891, 7957,
     8023, 8089, 8154, 8219, 8284, 8348, 8412, 8475, 8539, 8602,
     8664 >>

\* const naturalDuration = Math.log(target) / UNIVERSAL_GROWTH_RATE  (ms)
naturalDuration(target) == LnTable[target - 99]

\* estimateTimeToMultiplier: naturalDuration + microRandomness (ms; may be <= 0)
estimateTimeToMultiplier(target, microRandomness) ==
  naturalDuration(target) + microRandomness

\* A progress value is the fraction n / d with d > 0 (n may be negative).
\* const progress = Math.min(1, elapsedSec / timeToCrash), elapsedMs > 0
Progress(elapsedMs, timeToCrash) ==
  IF timeToCrash = 0 THEN [n |-> 1, d |-> 1]                \* x / 0 = Infinity
  ELSE IF timeToCrash < 0 THEN [n |-> 0 - elapsedMs, d |-> 0 - timeToCrash]
  ELSE IF elapsedMs >= timeToCrash THEN [n |-> 1, d |-> 1]
  ELSE [n |-> elapsedMs, d |-> timeToCrash]

ProgressComplete(p) == p.n >= p.d

\* Math.floor(Math.exp(0.08 * progress * naturalDuration) * 100), in hundredths:
\* the largest hundredth m whose own natural duration has elapsed.  For a
\* negative progress the exponential is below 1.00 (99 stands for any such value).
steppedMultiplier(p, target) ==
  IF p.n < 0 /\ naturalDuration(target) > 0 THEN 99
  ELSE LET reached == {m \in ONE..target :
                          naturalDuration(m) * p.d <= p.n * naturalDuration(target)}
       IN  IF p.n < 0 THEN ONE
           ELSE CHOOSE m \in reached : \A k \in reached : k <= m

Min(a, b) == IF a <= b THEN a ELSE b

Max(a, b) == IF a >= b THEN a ELSE b

\* variant of calculateMultiplier: the slight increase at the crash is kept
calculateMultiplier_Overshoot(p, target) ==
  IF ProgressComplete(p) THEN target + 1
  ELSE LET result == Min(steppedMultiplier(p, target), target)
       IN  Max(ONE, Min(result, target))

calculateMultiplier(p, target) ==
  IF ProgressComplete(p) THEN target
  ELSE LET result == Min(steppedMultiplier(p, target), target)
       IN  Max(ONE, Min(result, target))

\* Hundredths m for which the doubles (m+1)/100 and m/100 differ by less than 0.01
FloatShortGaps == {112, 137, 162, 187}

\* Math.abs(currentMultiplier - lastEmittedMultiplier) >= 0.01 on doubles
EmitThresholdReached(cur, last) ==
  LET lo == Min(cur, last)
      hi == Max(cur, last)
  IN  hi - lo >= 2 \/ (hi - lo = 1 /\ lo \notin FloatShortGaps)

----------------------------------------------------------------------------
(* State                                                                   *)

VARIABLES
  multiplierQueue,     \* let multiplierQueue = []
  roundMultipliers,    \* let roundMultipliers = new Map(): round -> multiplier
  currentRound,        \* let currentRound = 0
  currentMultiplier,   \* let currentMultiplier = 1.00
  crashPoint,          \* let crashPoint = null
  gamePhase,           \* 'wait' | 'betting' | 'flying' | 'crashed'
  simulationInterval,  \* handle is non-null
  bettingTimer,        \* handle is non-null
  waitTimer,           \* handle is non-null
  elapsed,             \* Date.now() - startTime, -1 while startTime is null
  timers,              \* pending timeouts and intervals of the event loop
  clientStates,        \* socketId -> {currentRound, isSynced}
  emitted,             \* events broadcast (io.emit) by the last engine step
  sent,                \* events sent to one socket (socket.emit) by the last step
  lastOp,              \* the last engine step, its inputs and the state it found
  lastCrash,           \* payload of the most recent round:crash broadcast
  lastStart,           \* payload of the most recent round:start broadcast
  supplied,            \* the multipliers of all accepted POST /queue batches
  playCrashes,         \* round:crash broadcasts since the last round:start
  lastUpdate,          \* multiplier of the most recent multiplier:update broadcast
                       \* since the most recent round:start or round:flying (else 1.00)
  closing,             \* the SIGINT handler has run cleanup()
  unplayed,            \* multipliers ingested so far minus rounds started so far
  queueTags,           \* for each queue element, the entry it was ingested as
  playTag,             \* the entry dequeued by the most recent round start
  owedStart,           \* startRound of a POST /queue that found currentRound 0
                       \* and has not been followed by a round:start yet (else 0)
  requests,            \* HTTP and socket requests handled so far
  recording,           \* whether phase events are appended to trace
  trace                \* phase events broadcast so far (while recording)

gameVars ==
  << multiplierQueue, roundMultipliers, currentRound, currentMultiplier,
     crashPoint, gamePhase, simulationInterval, bettingTimer, waitTimer,
     elapsed, timers >>

vars ==
  << multiplierQueue, roundMultipliers, currentRound, currentMultiplier,
     crashPoint, gamePhase, simulationInterval, bettingTimer, waitTimer,
     elapsed, timers, clientStates, emitted, sent, lastOp, lastCrash, lastStart,
     supplied, playCrashes, lastUpdate, closing, unplayed, queueTags, playTag, owedStart, requests,
     recording, trace >>

Phases == {"wait", "betting", "flying", "crashed"}

Idle == {"wait", "crashed"}

Event(type, round, phase, multiplier, cp) ==
  [type |-> type, round |-> round, phase |-> phase,
   multiplier |-> multiplier, crashPoint |-> cp]

Timer(kind, rem, timeToCrash) ==
  [kind |-> kind, rem |-> rem, held |-> TRUE,
   timeToCrash |-> timeToCrash, lastEmittedMultiplier |-> ONE]

\* A handle variable is assigned a new timer: the timer it referenced before,
\* if still pending, stays pending and is no longer referenced.
Unhold(ts, kind) ==
  [i \in DOMAIN ts |->
     IF ts[i].kind = kind THEN [ts[i] EXCEPT !.held = FALSE] ELSE ts[i]]

\* clearInterval / clearTimeout on a handle variable
Cancel(ts, kind) == SelectSeq(ts, LAMBDA t : ~(t.kind = kind /\ t.held))

RemoveAt(ts, i) == [j \in 1..(Len(ts) - 1) |-> IF j < i THEN ts[j] ELSE ts[j + 1]]

\* Map.prototype.set
MapSet(map, k, v) ==
  [r \in (DOMAIN map) \cup {k} |-> IF r = k THEN v ELSE map[r]]

NoEntry == [multiplier |-> NULL, round_number |-> 0, isNumber |-> TRUE]

NoCrash == [round |-> 0, crashPoint |-> NULL]

NoOp == [op |-> "init", startRound |-> 0, round0 |-> 0, phase0 |-> "wait",
         qlen0 |-> 0, owed0 |-> 0, batch |-> <<>>,
         authorized |-> TRUE, shape |-> "array", status |-> 200]

\* The program state as one record, so that a handler's calls compose.
Game ==
  [multiplierQueue |-> multiplierQueue, roundMultipliers |-> roundMultipliers,
   currentRound |-> currentRound, currentMultiplier |-> currentMultiplier,
   crashPoint |-> crashPoint, gamePhase |-> gamePhase,
   simulationInterval |-> simulationInterval, bettingTimer |-> bettingTimer,
   waitTimer |-> waitTimer, elapsed |-> elapsed, timers |-> timers,
   queueTags |-> queueTags, playTag |-> playTag, emitted |-> <<>>,
   status |-> 200]

PhaseEvents(evs) == SelectSeq(evs, LAMBDA e : e.type # "multiplier:update")

\* the number of round:crash broadcasts since the last round:start after the
\* broadcasts evs, given the number before (counted up to MaxPlayCrashes)
RECURSIVE CrashCount(_, _)
CrashCount(n, evs) ==
  IF evs = << >> THEN n
  ELSE CrashCount(IF Head(evs).type = "round:start" THEN 0
                  ELSE IF Head(evs).type = "round:crash"
                       THEN (IF n < MaxPlayCrashes THEN n + 1 ELSE n)
                  ELSE n,
                  Tail(evs))

\* the multiplier on display after the broadcasts evs, given the one before
RECURSIVE Displayed(_, _)
Displayed(shown, evs) ==
  IF evs = << >> THEN shown
  ELSE Displayed(IF Head(evs).type = "multiplier:update" THEN Head(evs).multiplier
                 ELSE IF Head(evs).type \in {"round:start", "round:flying"} THEN ONE
                 ELSE shown,
                 Tail(evs))

CrashEvents(evs) == SelectSeq(evs, LAMBDA e : e.type = "round:crash")

StartEvents(evs) == SelectSeq(evs, LAMBDA e : e.type = "round:start")

\* Write a handler's result back to the variables.
Commit(g, op) ==
  /\ multiplierQueue' = g.multiplierQueue
  /\ roundMultipliers' = g.roundMultipliers
  /\ currentRound' = g.currentRound
  /\ currentMultiplier' = g.currentMultiplier
  /\ crashPoint' = g.crashPoint
  /\ gamePhase' = g.gamePhase
  /\ simulationInterval' = g.simulationInterval
  /\ bettingTimer' = g.bettingTimer
  /\ waitTimer' = g.waitTimer
  /\ elapsed' = g.elapsed
  /\ timers' = g.timers
  /\ queueTags' = g.queueTags
  /\ playTag' = g.playTag
  /\ emitted' = g.emitted
  /\ lastOp' = op
  /\ lastCrash' =
       LET cs == CrashEvents(g.emitted)
       IN  IF cs = <<>> THEN lastCrash
           ELSE [round |-> cs[Len(cs)].round, crashPoint |-> cs[Len(cs)].crashPoint]
  /\ playCrashes' = CrashCount(playCrashes, g.emitted)
  /\ supplied' =
       IF op.op = "queue"
       THEN supplied \cup {op.batch[i].multiplier : i \in DOMAIN op.batch}
       ELSE supplied
  /\ lastStart' =
       LET ss == StartEvents(g.emitted)
       IN  IF ss = <<>> THEN lastStart
           ELSE [round |-> ss[Len(ss)].round, crashPoint |-> ss[Len(ss)].crashPoint]
  /\ owedStart' =
       IF StartEvents(g.emitted) # <<>> THEN 0
       ELSE IF op.op = "queue" /\ op.startRound >= 1 /\ op.round0 = 0
            THEN op.startRound
       ELSE owedStart
  /\ lastUpdate' = Displayed(lastUpdate, g.emitted)
  /\ unplayed' = unplayed + (IF op.op = "queue" THEN Len(op.batch) ELSE 0)
                          - Len(StartEvents(g.emitted))
  /\ trace' = IF recording THEN trace \o PhaseEvents(g.emitted) ELSE trace
  /\ UNCHANGED << recording, closing >>

Op(name, startRound, batch) ==
  [op |-> name, startRound |-> startRound, round0 |-> currentRound,
   phase0 |-> gamePhase, qlen0 |-> Len(multiplierQueue), owed0 |-> owedStart,
   batch |-> batch, authorized |-> TRUE, shape |-> "array", status |-> 200]

TypeOK ==
  /\ gamePhase \in Phases
  /\ currentRound \in 0..MaxRound
  /\ Len(queueTags) = Len(multiplierQueue)
  /\ Len(timers) <= MaxTimers

----------------------------------------------------------------------------
(* Game simulation functions                                               *)

\* const roundMultiplier = roundMultipliers.get(currentRound); if (!roundMultiplier)
HasRoundMultiplier(g) ==
  /\ g.currentRound \in DOMAIN g.roundMultipliers
  /\ g.roundMultipliers[g.currentRound] # 0

\* variant of SelectCrashPoint: the queue head is played whatever the ledger says
SelectCrashPoint_QueueHead(g) == Head(g.multiplierQueue)

\* the crash point startNextRound assigns: the mapped multiplier, else the queue head
\* variant of SelectCrashPoint: a ledger miss plays a fixed 2.00
SelectCrashPoint_FixedOnMiss(g) ==
  IF HasRoundMultiplier(g) THEN g.roundMultipliers[g.currentRound] ELSE 2 * ONE

SelectCrashPoint(g) ==
  IF HasRoundMultiplier(g) THEN g.roundMultipliers[g.currentRound]
  ELSE Head(g.multiplierQueue)

RoundStartEvent(g) == Event("round:start", g.currentRound, "", NULL, g.crashPoint)

\* variant of startNextRound: the queue head stays when the ledger has the
\* crash point of the round
startNextRound_KeepsHeadOnLedgerHit(g) ==
  IF Len(g.multiplierQueue) = 0 THEN [g EXCEPT !.gamePhase = "wait"]
  ELSE LET hit == HasRoundMultiplier(g)
           g1 == [g EXCEPT !.crashPoint = SelectCrashPoint(g),
                           !.multiplierQueue = IF hit THEN @ ELSE Tail(@),
                           !.playTag = Head(g.queueTags),
                           !.queueTags = IF hit THEN @ ELSE Tail(@),
                           !.currentMultiplier = ONE,
                           !.gamePhase = "betting"]
       IN  [g1 EXCEPT !.emitted = Append(@, Event("round:start", g1.currentRound,
                                                  "", NULL, g1.crashPoint)),
                      !.bettingTimer = TRUE,
                      !.timers = Append(Unhold(@, "betting"),
                                        Timer("betting", BETTING_PHASE_DURATION, 0))]

startNextRound(g) ==
  IF Len(g.multiplierQueue) = 0 THEN [g EXCEPT !.gamePhase = "wait"]
  ELSE LET g1 == [g EXCEPT !.crashPoint = SelectCrashPoint(g),
                           !.multiplierQueue = Tail(@),
                           !.playTag = Head(g.queueTags),
                           !.queueTags = Tail(@),
                           !.currentMultiplier = ONE,
                           !.gamePhase = "betting"]
       IN  [g1 EXCEPT !.emitted = Append(@, RoundStartEvent(g1)),
                      !.bettingTimer = TRUE,
                      !.timers = Append(Unhold(@, "betting"),
                                        Timer("betting", BETTING_PHASE_DURATION, 0))]

RoundFlyingEvent(g) ==
  Event("round:flying", g.currentRound, "", g.currentMultiplier, g.crashPoint)

startFlyingPhase(g, microRandomness) ==
  LET g1 == [g EXCEPT !.gamePhase = "flying", !.currentMultiplier = ONE]
  IN  [g1 EXCEPT !.emitted = Append(@, RoundFlyingEvent(g1)),
                 !.elapsed = 0,
                 !.simulationInterval = TRUE,
                 !.timers = Append(Unhold(@, "animation"),
                                   Timer("animation", MULTIPLIER_UPDATE_INTERVAL,
                                         estimateTimeToMultiplier(g.crashPoint,
                                                                  microRandomness)))]

RoundCrashEvent(g) == Event("round:crash", g.currentRound, "", NULL, g.crashPoint)

\* variant of crashRound: the crash point is not stored in the ledger
crashRound_NoLedger(g) ==
  LET g1 == [g EXCEPT !.gamePhase = "crashed",
                      !.currentMultiplier = g.crashPoint,
                      !.timers = IF g.simulationInterval
                                 THEN Cancel(@, "animation") ELSE @,
                      !.simulationInterval = FALSE]
  IN  [g1 EXCEPT !.emitted = Append(@, RoundCrashEvent(g1)),
                 !.waitTimer = TRUE,
                 !.timers = Append(Unhold(@, "wait"),
                                   Timer("wait", WAIT_PHASE_DURATION, 0))]

crashRound(g) ==
  LET g1 == [g EXCEPT !.gamePhase = "crashed",
                      !.currentMultiplier = g.crashPoint,
                      !.roundMultipliers = MapSet(@, g.currentRound, g.crashPoint),
                      !.timers = IF g.simulationInterval
                                 THEN Cancel(@, "animation") ELSE @,
                      !.simulationInterval = FALSE]
  IN  [g1 EXCEPT !.emitted = Append(@, RoundCrashEvent(g1)),
                 !.waitTimer = TRUE,
                 !.timers = Append(Unhold(@, "wait"),
                                   Timer("wait", WAIT_PHASE_DURATION, 0))]

\* the callback of crashRound's setTimeout
waitTimerCallback(g) ==
  LET g1 == [g EXCEPT !.gamePhase = "wait", !.currentRound = @ + 1]
  IN  IF Len(g1.multiplierQueue) > 0 THEN startNextRound(g1) ELSE g1

MultiplierUpdateEvent(g) ==
  Event("multiplier:update", g.currentRound, "", g.currentMultiplier, NULL)

\* if (progress >= 1.0 || currentMultiplier >= crashPoint)
CrashReached(p, g) == ProgressComplete(p) \/ g.currentMultiplier >= g.crashPoint

\* variant of animationTick: the multiplier grows by a fixed 0.02 per interval
\* and the round crashes on progress alone
animationTick_FixedRate(g, i) ==
  LET t    == g.timers[i]
      p    == Progress(g.elapsed, t.timeToCrash)
      g1   == [g EXCEPT !.currentMultiplier =
                 ONE + 2 * (g.elapsed \div MULTIPLIER_UPDATE_INTERVAL)]
      emit == EmitThresholdReached(g1.currentMultiplier, t.lastEmittedMultiplier)
      g2   == [g1 EXCEPT
                 !.emitted = IF emit THEN Append(@, MultiplierUpdateEvent(g1)) ELSE @,
                 !.timers[i] =
                    [t EXCEPT !.rem = MULTIPLIER_UPDATE_INTERVAL,
                              !.lastEmittedMultiplier =
                                 IF emit THEN g1.currentMultiplier ELSE @]]
  IN  IF ProgressComplete(p) THEN crashRound(g2) ELSE g2

\* the callback of startFlyingPhase's setInterval, for the pending interval i
animationTick(g, i) ==
  LET t    == g.timers[i]
      p    == Progress(g.elapsed, t.timeToCrash)
      g1   == [g EXCEPT !.currentMultiplier = calculateMultiplier(p, g.crashPoint)]
      emit == EmitThresholdReached(g1.currentMultiplier, t.lastEmittedMultiplier)
      g2   == [g1 EXCEPT
                 !.emitted = IF emit THEN Append(@, MultiplierUpdateEvent(g1)) ELSE @,
                 !.timers[i] =
                    [t EXCEPT !.rem = MULTIPLIER_UPDATE_INTERVAL,
                              !.lastEmittedMultiplier =
                                 IF emit THEN g1.currentMultiplier ELSE @]]
  IN  IF CrashReached(p, g2) THEN crashRound(g2) ELSE g2

\* cleanup(): each handle that is non-null is cleared (a handle whose timer
\* has fired or was replaced clears nothing that is pending)
cleanup(g) ==
  LET t1 == IF g.simulationInterval THEN Cancel(g.timers, "animation") ELSE g.timers
      t2 == IF g.bettingTimer THEN Cancel(t1, "betting") ELSE t1
      t3 == IF g.waitTimer THEN Cancel(t2, "wait") ELSE t2
  IN  [g EXCEPT !.timers = t3]

----------------------------------------------------------------------------
(* POST /queue                                                             *)

\* variant of RoundNumberOf: the index counted from 1
RoundNumberOf_OneBased(item, startRound, index) ==
  IF item.isNumber THEN startRound + index + 1 ELSE item.round_number

\* typeof item === 'number' ? (startRound + index) : item.round_number
RoundNumberOf(item, startRound, index) ==
  IF item.isNumber THEN startRound + index ELSE item.round_number

\* multipliers.forEach((item, index) => roundMultipliers.set(roundNumber, multiplier))
RECURSIVE StoreRoundMultipliers(_, _, _, _)
StoreRoundMultipliers(map, multipliers, startRound, n) ==
  IF n = 0 THEN map
  ELSE MapSet(StoreRoundMultipliers(map, multipliers, startRound, n - 1),
              RoundNumberOf(multipliers[n], startRound, n - 1),
              multipliers[n].multiplier)

\* variant of SyncRound: a round counter behind startRound is kept
SyncRound_NoCatchUp(g, startRound) ==
  IF startRound = 0 THEN g.currentRound
  ELSE IF g.currentRound = 0 THEN startRound
  ELSE IF g.currentRound > startRound
       THEN IF g.currentRound \notin DOMAIN g.roundMultipliers
            THEN startRound ELSE g.currentRound
  ELSE g.currentRound

\* variant of SyncRound: a round counter ahead of startRound is always reset
SyncRound_NoLedgerCheck(g, startRound) ==
  IF startRound = 0 THEN g.currentRound
  ELSE IF g.currentRound = 0 THEN startRound
  ELSE IF g.currentRound < startRound THEN startRound
  ELSE IF g.currentRound > startRound THEN startRound
  ELSE g.currentRound

\* the round synchronizer: if (startRound) { ... }
SyncRound(g, startRound) ==
  IF startRound = 0 THEN g.currentRound
  ELSE IF g.currentRound = 0 THEN startRound
  ELSE IF g.currentRound < startRound THEN startRound
  ELSE IF g.currentRound > startRound
       THEN IF g.currentRound \notin DOMAIN g.roundMultipliers
            THEN startRound ELSE g.currentRound
  ELSE g.currentRound

\* if ((gamePhase === 'wait' || gamePhase === 'crashed') && multiplierQueue.length > 0)
QueueStartsSimulation(g) == g.gamePhase \in Idle /\ Len(g.multiplierQueue) > 0

\* variant of queueHandler: the synchronizer also runs while a round is played
queueHandler_SyncWhileRunning(g, multipliers, startRound) ==
  LET g1 == [g EXCEPT
               !.multiplierQueue =
                  @ \o [i \in DOMAIN multipliers |-> multipliers[i].multiplier],
               !.queueTags = @ \o multipliers,
               !.roundMultipliers =
                  StoreRoundMultipliers(@, multipliers, startRound, Len(multipliers))]
      g2 == [g1 EXCEPT !.currentRound = SyncRound(g1, startRound)]
  IN  IF QueueStartsSimulation(g2)
      THEN startNextRound([g2 EXCEPT !.gamePhase = "wait"])
      ELSE g2

\* variant of queueHandler: a round is started whenever the queue is non-empty
queueHandler_StartsWhileRunning(g, multipliers, startRound) ==
  LET g1 == [g EXCEPT
               !.multiplierQueue =
                  @ \o [i \in DOMAIN multipliers |-> multipliers[i].multiplier],
               !.queueTags = @ \o multipliers,
               !.roundMultipliers =
                  StoreRoundMultipliers(@, multipliers, startRound, Len(multipliers))]
  IN  IF Len(g1.multiplierQueue) > 0
      THEN startNextRound([g1 EXCEPT !.currentRound = SyncRound(g1, startRound),
                                     !.gamePhase = "wait"])
      ELSE g1

queueHandler(g, multipliers, startRound) ==
  LET g1 == [g EXCEPT
               !.multiplierQueue =
                  @ \o [i \in DOMAIN multipliers |-> multipliers[i].multiplier],
               !.queueTags = @ \o multipliers,
               !.roundMultipliers =
                  StoreRoundMultipliers(@, multipliers, startRound, Len(multipliers))]
  IN  IF QueueStartsSimulation(g1)
      THEN startNextRound([g1 EXCEPT !.currentRound = SyncRound(g1, startRound),
                                     !.gamePhase = "wait"])
      ELSE g1

\* variant of queueRoute: the handler is mounted without authenticateRequest
queueRoute_NoAuthentication(g, authorized, shape, multipliers, startRound) ==
  IF shape # "array" THEN [g EXCEPT !.status = 400]
  ELSE queueHandler(g, multipliers, startRound)

\* app.post('/queue', authenticateRequest, (req, res) => ...): the middleware,
\* the check of req.body.multipliers, then the handler
queueRoute(g, authorized, shape, multipliers, startRound) ==
  IF ~authorized THEN [g EXCEPT !.status = 401]
  ELSE IF shape # "array" THEN [g EXCEPT !.status = 400]
  ELSE queueHandler(g, multipliers, startRound)

----------------------------------------------------------------------------
(* POST /trigger-next, POST /force-start                                   *)

triggerNextHandler(g) ==
  IF g.gamePhase \in Idle /\ Len(g.multiplierQueue) > 0
  THEN startNextRound([g EXCEPT !.gamePhase = "wait"])
  ELSE g

\* Math.min(...Array.from(roundMultipliers.keys()))
FirstRound(g) ==
  CHOOSE k \in DOMAIN g.roundMultipliers : \A j \in DOMAIN g.roundMultipliers : k <= j

forceStartHandler(g) ==
  IF Len(g.multiplierQueue) = 0 THEN g
  ELSE startNextRound([g EXCEPT !.gamePhase = "wait",
                                !.currentRound = IF @ = 0 THEN FirstRound(g) ELSE @])

----------------------------------------------------------------------------
(* GET /health, GET /debug, GET /current-state                             *)

\* getMultiplierForRound(currentRound): roundMultipliers.get(round) || 1.00
getMultiplierForRound ==
  IF currentRound \in DOMAIN roundMultipliers /\ roundMultipliers[currentRound] # 0
  THEN roundMultipliers[currentRound]
  ELSE ONE

\* gamePhase === 'flying' ? currentMultiplier : roundMultiplier
ReportedMultiplier ==
  IF gamePhase = "flying" THEN currentMultiplier ELSE getMultiplierForRound

HealthResponse == Event("health", currentRound, gamePhase, ReportedMultiplier, NULL)

DebugResponse == Event("debug", currentRound, gamePhase, ReportedMultiplier, crashPoint)

CurrentStateResponse ==
  Event("current-state", currentRound, gamePhase, currentMultiplier, crashPoint)

----------------------------------------------------------------------------
(* io.on('connection')                                                     *)

\* gamePhase === 'flying' ? currentMultiplier : (crashPoint || 1.00)
ShownMultiplier ==
  IF gamePhase = "flying" THEN currentMultiplier
  ELSE IF crashPoint # NULL THEN crashPoint ELSE ONE

GameStateMessage ==
  Event("game:state", currentRound, gamePhase, ShownMultiplier, crashPoint)

RoundInfoMessage ==
  Event("round:info", currentRound, gamePhase, ShownMultiplier, crashPoint)

BettingInfo == Event("round:start", currentRound, "", NULL, crashPoint)

FlyingInfo == Event("round:flying", currentRound, "", currentMultiplier, crashPoint)

\* variant of CrashInfo: the late joiner is shown currentMultiplier
CrashInfo_ShowsMultiplier ==
  Event("round:crash", currentRound, "", NULL, currentMultiplier)

CrashInfo == Event("round:crash", currentRound, "", NULL, crashPoint)

\* variant of connectionMessages: the crash info is sent unless a round is
\* being played
connectionMessages_CrashInfoWhenIdle ==
  << GameStateMessage, RoundInfoMessage >>
    \o (IF gamePhase = "betting" THEN << BettingInfo >> ELSE << >>)
    \o (IF gamePhase = "flying" THEN << FlyingInfo >> ELSE << >>)
    \o (IF gamePhase \in Idle THEN << CrashInfo >> ELSE << >>)

connectionMessages ==
  << GameStateMessage, RoundInfoMessage >>
    \o (IF gamePhase = "betting" THEN << BettingInfo >> ELSE << >>)
    \o (IF gamePhase = "flying" THEN << FlyingInfo >> ELSE << >>)
    \o (IF gamePhase = "crashed" THEN << CrashInfo >> ELSE << >>)

----------------------------------------------------------------------------
(* Inputs                                                                  *)

\* an item of the multipliers array: a number, or {multiplier, round_number}
Plain(m) == [multiplier |-> m, round_number |-> 0, isNumber |-> TRUE]

Tagged(m, r) == [multiplier |-> m, round_number |-> r, isNumber |-> FALSE]

\* req.body.startRound; 0 is falsy like a missing startRound
StartRounds == 0..MaxStart

\* req.body.multipliers: an array, undefined, or a value that is no array
Shapes == {"array", "missing", "object"}

Batches ==
  {<< >>}
    \cup {<< Plain(m) >> : m \in Mults}
    \cup {<< Plain(m1), Plain(m2) >> : m1 \in Mults, m2 \in Mults}
    \cup {<< Tagged(m, r) >> : m \in Mults, r \in 1..MaxStart}

\* the arrays sent with a wrong token
RejectedBatches == {<< >>} \cup {<< Plain(m) >> : m \in Mults}

----------------------------------------------------------------------------
(* Initial state and steps                                                 *)

InitGame ==
  /\ multiplierQueue = << >>
  /\ roundMultipliers = [r \in {} |-> NULL]
  /\ currentRound = 0
  /\ currentMultiplier = ONE
  /\ crashPoint = NULL
  /\ gamePhase = "wait"
  /\ simulationInterval = FALSE
  /\ bettingTimer = FALSE
  /\ waitTimer = FALSE
  /\ elapsed = -1
  /\ timers = << >>
  /\ clientStates = [v \in {} |-> 0]
  /\ emitted = << >>
  /\ sent = << >>
  /\ lastOp = NoOp
  /\ lastCrash = NoCrash
  /\ lastStart = NoCrash
  /\ supplied = {}
  /\ playCrashes = 0
  /\ lastUpdate = ONE
  /\ closing = FALSE
  /\ unplayed = 0
  /\ queueTags = << >>
  /\ playTag = NoEntry
  /\ owedStart = 0
  /\ requests = 0
  /\ trace = << >>

Init == InitGame /\ recording = FALSE

\* app.post('/queue', authenticateRequest, ...) with a valid token and an array
QueuePostStep(multipliers, startRound) ==
  /\ Commit(queueHandler(Game, multipliers, startRound),
            Op("queue", startRound, multipliers))
  /\ requests' = requests + 1
  /\ sent' = << >>
  /\ UNCHANGED clientStates

\* app.post('/queue', ...) with a wrong token or with multipliers that is no array
QueuePostRejectedStep(authorized, shape, multipliers, startRound) ==
  /\ ~(authorized /\ shape = "array")
  /\ LET g == queueRoute(Game, authorized, shape, multipliers, startRound)
     IN  Commit(g, [Op(IF g.status = 200 THEN "queue" ELSE "queue-rejected",
                       startRound, multipliers)
                      EXCEPT !.authorized = authorized, !.shape = shape,
                             !.status = g.status])
  /\ requests' = requests + 1
  /\ sent' = << >>
  /\ UNCHANGED clientStates

\* app.post('/trigger-next', authenticateRequest, ...)
TriggerNextStep ==
  /\ Commit(triggerNextHandler(Game), Op("trigger-next", 0, << >>))
  /\ requests' = requests + 1
  /\ sent' = << >>
  /\ UNCHANGED clientStates

\* app.post('/force-start', authenticateRequest, ...)
ForceStartStep ==
  /\ Commit(forceStartHandler(Game), Op("force-start", 0, << >>))
  /\ requests' = requests + 1
  /\ sent' = << >>
  /\ UNCHANGED clientStates

\* the betting timeout i is due: setTimeout(() => startFlyingPhase(), ...)
BettingTimerStep(i, microRandomness) ==
  /\ timers[i].kind = "betting" /\ timers[i].rem = 0
  /\ Commit(startFlyingPhase([Game EXCEPT !.timers = RemoveAt(@, i)], microRandomness),
            Op("betting-timer", 0, << >>))
  /\ sent' = << >>
  /\ UNCHANGED << requests, clientStates >>

\* the animation interval i is due
AnimationTickStep(i) ==
  /\ timers[i].kind = "animation" /\ timers[i].rem = 0
  /\ Commit(animationTick(Game, i), Op("animation-tick", 0, << >>))
  /\ sent' = << >>
  /\ UNCHANGED << requests, clientStates >>

\* the wait timeout i is due
WaitTimerStep(i) ==
  /\ timers[i].kind = "wait" /\ timers[i].rem = 0
  /\ Commit(waitTimerCallback([Game EXCEPT !.timers = RemoveAt(@, i)]),
            Op("wait-timer", 0, << >>))
  /\ sent' = << >>
  /\ UNCHANGED << requests, clientStates >>

MinRem == CHOOSE d \in {timers[i].rem : i \in DOMAIN timers} :
            \A i \in DOMAIN timers : d <= timers[i].rem

\* Time passes while no timer is due: up to the next deadline, at most PassStep.
Advance ==
  /\ timers # << >>
  /\ \A i \in DOMAIN timers : timers[i].rem > 0
  /\ LET d == Min(MinRem, PassStep)
     IN  /\ timers' = [i \in DOMAIN timers |-> [timers[i] EXCEPT !.rem = @ - d]]
         /\ elapsed' = IF elapsed < 0 THEN elapsed ELSE Min(elapsed + d, MaxElapsed)
  /\ emitted' = << >>
  /\ sent' = << >>
  /\ lastOp' = Op("advance", 0, << >>)
  /\ UNCHANGED << multiplierQueue, roundMultipliers, currentRound, currentMultiplier,
                  crashPoint, gamePhase, simulationInterval, bettingTimer, waitTimer,
                  clientStates, lastCrash, lastStart, supplied, playCrashes, lastUpdate, closing, unplayed, queueTags, playTag,
                  owedStart, requests, recording, trace >>

\* process.on('SIGINT', ...): cleanup(), then server.close(); the process
\* exits only when the server has closed
ShutdownStep ==
  /\ timers' = cleanup(Game).timers
  /\ closing' = TRUE
  /\ emitted' = << >>
  /\ sent' = << >>
  /\ lastOp' = Op("shutdown", 0, << >>)
  /\ UNCHANGED << multiplierQueue, roundMultipliers, currentRound, currentMultiplier,
                  crashPoint, gamePhase, simulationInterval, bettingTimer, waitTimer,
                  elapsed, clientStates, lastCrash, lastStart, supplied, playCrashes, lastUpdate, unplayed, queueTags,
                  playTag, owedStart, requests, recording, trace >>

\* io.on('connection', (socket) => ...)
Connect(v) ==
  /\ v \notin DOMAIN clientStates
  /\ clientStates' = MapSet(clientStates, v,
                            [currentRound |-> currentRound, isSynced |-> TRUE])
  /\ sent' = connectionMessages
  /\ UNCHANGED << gameVars, emitted, lastOp, lastCrash, lastStart, supplied, playCrashes, lastUpdate, closing, unplayed,
                  queueTags, playTag, owedStart, requests, recording, trace >>

\* variant of Disconnect: the animation is stopped when a viewer leaves
Disconnect_StopsSimulation(v) ==
  /\ v \in DOMAIN clientStates
  /\ clientStates' = [w \in (DOMAIN clientStates) \ {v} |-> clientStates[w]]
  /\ sent' = << >>
  /\ timers' = Cancel(timers, "animation")
  /\ simulationInterval' = FALSE
  /\ UNCHANGED << multiplierQueue, roundMultipliers, currentRound,
                  currentMultiplier, crashPoint, gamePhase, bettingTimer,
                  waitTimer, elapsed, emitted, lastOp, lastCrash, lastStart, supplied, playCrashes, lastUpdate,
                  closing, unplayed, queueTags, playTag, owedStart, requests, recording,
                  trace >>

\* socket.on('disconnect', ...)
Disconnect(v) ==
  /\ v \in DOMAIN clientStates
  /\ clientStates' = [w \in (DOMAIN clientStates) \ {v} |-> clientStates[w]]
  /\ sent' = << >>
  /\ UNCHANGED << gameVars, emitted, lastOp, lastCrash, lastStart, supplied, playCrashes, lastUpdate, closing, unplayed,
                  queueTags, playTag, owedStart, requests, recording, trace >>

\* a handler that answers one socket or one HTTP request and writes nothing
Answer(name, response) ==
  /\ requests' = requests + 1
  /\ sent' = << response >>
  /\ emitted' = << >>
  /\ lastOp' = Op(name, 0, << >>)
  /\ UNCHANGED << gameVars, clientStates, lastCrash, lastStart, supplied, playCrashes, lastUpdate, closing, unplayed,
                  queueTags, playTag, owedStart, recording, trace >>

\* socket.on('request:state', ...)
RequestState(v) ==
  v \in DOMAIN clientStates /\ Answer("request:state", GameStateMessage)

\* socket.on('request:round-info', ...)
RequestRoundInfo(v) ==
  v \in DOMAIN clientStates /\ Answer("request:round-info", RoundInfoMessage)

\* app.get('/health', ...)
GetHealth == Answer("health", HealthResponse)

\* app.get('/debug', ...)
GetDebug == Answer("debug", DebugResponse)

\* app.get('/current-state', ...)
GetCurrentState == Answer("current-state", CurrentStateResponse)

\* the bounds of the general specification, as a guard on the state stepped to
Bounded == currentRound <= MaxRound /\ Len(timers) <= MaxTimers

\* A viewer's session is a connect directly followed by its disconnect: the
\* socket handlers only read the game, and the engine never reads clientStates.
NoSession == DOMAIN clientStates = {}

\* the server accepts requests and connections until it is shut down
Serving == ~closing

QueuePost == \E b \in Batches, s \in StartRounds :
               /\ Serving /\ NoSession /\ requests < MaxRequests
               /\ QueuePostStep(b, s) /\ Bounded'

QueuePostRejected ==
  \E a \in BOOLEAN, sh \in Shapes, s \in StartRounds :
    \E b \in (IF sh = "array" THEN RejectedBatches ELSE {<< >>}) :
      /\ Serving /\ NoSession /\ requests < MaxRequests
      /\ QueuePostRejectedStep(a, sh, b, s) /\ Bounded'

TriggerNext ==
  Serving /\ NoSession /\ requests < MaxRequests /\ TriggerNextStep /\ Bounded'

ForceStart ==
  Serving /\ NoSession /\ requests < MaxRequests /\ ForceStartStep /\ Bounded'

BettingTimerFires == \E i \in DOMAIN timers, j \in Jitters :
                       NoSession /\ BettingTimerStep(i, j) /\ Bounded'

AnimationTick == \E i \in DOMAIN timers : NoSession /\ AnimationTickStep(i) /\ Bounded'

WaitTimerFires == \E i \in DOMAIN timers : NoSession /\ WaitTimerStep(i) /\ Bounded'

TimePasses == NoSession /\ Advance

ViewerConnects == \E v \in Viewers : Serving /\ Connect(v)

ViewerDisconnects == \E v \in Viewers : Disconnect(v)

ViewerRequestsState ==
  \E v \in Viewers : requests < MaxRequests /\ RequestState(v)

ViewerRequestsRoundInfo ==
  \E v \in Viewers : requests < MaxRequests /\ RequestRoundInfo(v)

HealthCheck == Serving /\ NoSession /\ requests < MaxRequests /\ GetHealth

DebugCheck == Serving /\ NoSession /\ requests < MaxRequests /\ GetDebug

CurrentStateCheck == Serving /\ NoSession /\ requests < MaxRequests /\ GetCurrentState

Shutdown == Serving /\ NoSession /\ ShutdownStep

Next ==
  \/ QueuePost
  \/ QueuePostRejected
  \/ TriggerNext
  \/ ForceStart
  \/ BettingTimerFires
  \/ AnimationTick
  \/ WaitTimerFires
  \/ TimePasses
  \/ ViewerConnects
  \/ ViewerDisconnects
  \/ ViewerRequestsState
  \/ ViewerRequestsRoundInfo
  \/ HealthCheck
  \/ DebugCheck
  \/ CurrentStateCheck
  \/ Shutdown

Spec == Init /\ [][Next]_vars

----------------------------------------------------------------------------
(* The scenario of one batch [1.50, 2.00] with startRound 10                *)

ScenarioBatch == << Plain(150), Plain(200) >>

ScenarioInit == InitGame /\ recording = TRUE

ScenarioPost == requests = 0 /\ QueuePostStep(ScenarioBatch, 10)

ScenarioBettingTimer == \E i \in DOMAIN timers, j \in Jitters : BettingTimerStep(i, j)

ScenarioAnimationTick == \E i \in DOMAIN timers : AnimationTickStep(i)

ScenarioWaitTimer == \E i \in DOMAIN timers : WaitTimerStep(i)

ScenarioNext ==
  \/ ScenarioPost
  \/ ScenarioBettingTimer
  \/ ScenarioAnimationTick
  \/ ScenarioWaitTimer
  \/ Advance

\* The request arrives, due timers fire and time passes.
ScenarioSpec == ScenarioInit /\ [][ScenarioNext]_vars

----------------------------------------------------------------------------
(* One round with a crash point of 1.00, 1.01 or 1.02                       *)

LowMults == {100, 101, 102}

LowPost == \E m \in LowMults, s \in StartRounds :
             requests = 0 /\ QueuePostStep(<< Plain(m) >>, s)

LowNext ==
  \/ LowPost
  \/ ScenarioBettingTimer
  \/ ScenarioAnimationTick
  \/ ScenarioWaitTimer
  \/ Advance

LowSpec == Init /\ [][LowNext]_vars

(* one batch of two: a crash point near 1.00 followed by a second value      *)
StallPost == \E m \in LowMults, s \in StartRounds :
               requests = 0 /\ QueuePostStep(<< Plain(m), Plain(105) >>, s)

StallNext ==
  \/ StallPost
  \/ ScenarioBettingTimer
  \/ ScenarioAnimationTick
  \/ ScenarioWaitTimer
  \/ Advance

StallSpec == Init /\ [][StallNext]_vars

----------------------------------------------------------------------------
(* calculateMultiplier on a grid of progress values and crash points       *)

\* the crash points 1.00 .. 2.00
CurveTargets == ONE..(ONE + Len(LnTable) - 1)

\* crashPoint is the target, elapsed / GridSteps the progress
CurveInit ==
  /\ crashPoint \in CurveTargets
  /\ elapsed \in 0..GridSteps
  /\ multiplierQueue = << >>
  /\ roundMultipliers = [r \in {} |-> NULL]
  /\ currentRound = 0
  /\ currentMultiplier = ONE
  /\ gamePhase = "flying"
  /\ simulationInterval = FALSE
  /\ bettingTimer = FALSE
  /\ waitTimer = FALSE
  /\ timers = << >>
  /\ clientStates = [v \in {} |-> 0]
  /\ emitted = << >>
  /\ sent = << >>
  /\ lastOp = NoOp
  /\ lastCrash = NoCrash
  /\ lastStart = NoCrash
  /\ supplied = {crashPoint}
  /\ playCrashes = 0
  /\ lastUpdate = ONE
  /\ closing = FALSE
  /\ unplayed = 0
  /\ queueTags = << >>
  /\ playTag = NoEntry
  /\ owedStart = 0
  /\ requests = 0
  /\ recording = FALSE
  /\ trace = << >>

\* currentMultiplier = calculateMultiplier(progress, crashPoint)
CurveApply ==
  /\ lastOp.op = "init"
  /\ currentMultiplier' =
       calculateMultiplier([n |-> elapsed, d |-> GridSteps], crashPoint)
  /\ lastOp' = Op("calculateMultiplier", 0, << >>)
  /\ UNCHANGED << multiplierQueue, roundMultipliers, currentRound, crashPoint,
                  gamePhase, simulationInterval, bettingTimer, waitTimer, elapsed,
                  timers, clientStates, emitted, sent, lastCrash, lastStart, supplied, playCrashes, lastUpdate,
                  closing, unplayed, queueTags, playTag, owedStart, requests, recording,
                  trace >>

CurveSpec == CurveInit /\ [][CurveApply]_vars

----------------------------------------------------------------------------
(* A batch for round 3 ingested while round 1 is played                    *)

\* req.body.startRound of the second request
DeferredStartRound == 3

DeferFirstPost == requests = 0 /\ QueuePostStep(<< Plain(105) >>, 1)

DeferSecondPost ==
  /\ requests = 1
  /\ gamePhase \in {"betting", "flying"}
  /\ QueuePostStep(<< Plain(110) >>, DeferredStartRound)

DeferNext ==
  \/ DeferFirstPost
  \/ DeferSecondPost
  \/ ScenarioBettingTimer
  \/ ScenarioAnimationTick
  \/ ScenarioWaitTimer
  \/ Advance

DeferSpec == ScenarioInit /\ [][DeferNext]_vars

(* a second POST /queue that arrives while the first round is crashed, the   *)
(* wait timer of that round still pending                                    *)
LatePost ==
  /\ requests = 1
  /\ gamePhase = "crashed"
  /\ \E s \in {0, 2} : QueuePostStep(<< Plain(110) >>, s)

LateNext ==
  \/ DeferFirstPost
  \/ LatePost
  \/ ScenarioBettingTimer
  \/ ScenarioAnimationTick
  \/ ScenarioWaitTimer
  \/ Advance

LateSpec == ScenarioInit /\ [][LateNext]_vars

(* a batch of two that arrives while the first round is crashed: the wait    *)
(* timer of that round fires during the betting phase of the next one        *)
OverlapPost ==
  /\ requests = 1
  /\ gamePhase = "crashed"
  /\ QueuePostStep(<< Plain(110), Plain(110) >>, 0)
  /\ Bounded'

OverlapNext ==
  \/ DeferFirstPost
  \/ OverlapPost
  \/ BettingTimerFires
  \/ AnimationTick
  \/ WaitTimerFires
  \/ TimePasses

OverlapSpec == Init /\ [][OverlapNext]_vars

----------------------------------------------------------------------------
(* Properties                                                              *)

IsPrefix(a, b) == Len(a) <= Len(b) /\ \A i \in DOMAIN a : a[i] = b[i]

PlayEvents(round, cp) ==
  << Event("round:start", round, "", NULL, cp),
     Event("round:flying", round, "", ONE, cp),
     Event("round:crash", round, "", NULL, cp) >>

ScenarioExpected == PlayEvents(10, 150) \o PlayEvents(11, 200)

ScenarioDone ==
  /\ trace = ScenarioExpected
  /\ gamePhase = "wait"
  /\ multiplierQueue = << >>

\* C1: from the initial state, the single batch [1.50, 2.00] with startRound 10
\* makes the engine broadcast exactly round:start, round:flying and round:crash
\* of round 10 at 1.50 and then of round 11 at 2.00, in this order and nothing
\* else; as long as the six broadcasts are not complete a timer is pending, and
\* once no timer is pending all six were made, the queue is empty and the
\* phase is wait.
C1_ScenarioPlaysTenThenEleven ==
  /\ IsPrefix(trace, ScenarioExpected)
  /\ (requests = 1 /\ trace # ScenarioExpected) => timers # << >>
  /\ (requests = 1 /\ timers = << >>) => ScenarioDone

C1_Witness == ScenarioDone /\ timers = << >> /\ currentRound = 12

\* the startRound the next round:start has to carry according to C2
OwedAtLastStep ==
  IF lastOp.op = "queue" /\ lastOp.startRound >= 1 /\ lastOp.round0 = 0
  THEN lastOp.startRound
  ELSE lastOp.owed0

\* C2: after an accepted POST /queue with startRound R >= 1 that found
\* currentRound = 0, the next round:start that is broadcast carries round R,
\* whatever the phase was.
C2_NextStartCarriesStartRound ==
  (StartEvents(emitted) # << >> /\ OwedAtLastStep # 0)
    => StartEvents(emitted)[1].round = OwedAtLastStep

\* the last engine step was an accepted POST /queue that found the engine idle
IdlePost == lastOp.op = "queue" /\ lastOp.phase0 \in Idle

\* ... and the queue was non-empty once its batch was appended
IdlePostWithQueue == IdlePost /\ lastOp.qlen0 + Len(lastOp.batch) > 0

\* C3: catch-up.  An accepted POST /queue with startRound S that finds the
\* engine idle with 0 < currentRound < S and leaves the queue non-empty sets
\* currentRound to S and starts round S.
C3_CatchUp ==
  (IdlePostWithQueue /\ 0 < lastOp.round0 /\ lastOp.round0 < lastOp.startRound)
    => /\ currentRound = lastOp.startRound
       /\ gamePhase = "betting"
       /\ Len(StartEvents(emitted)) = 1
       /\ StartEvents(emitted)[1].round = lastOp.startRound

C3_Witness ==
  /\ IdlePostWithQueue
  /\ 0 < lastOp.round0 /\ lastOp.round0 < lastOp.startRound
  /\ gamePhase = "betting"

\* what the ahead rule makes of currentRound = R >= S (S >= 1)
AheadRuleResult ==
  IF lastOp.round0 = lastOp.startRound THEN lastOp.round0
  ELSE IF lastOp.round0 \in DOMAIN roundMultipliers THEN lastOp.round0
  ELSE lastOp.startRound

C4_WitnessAheadButValid ==
  /\ IdlePostWithQueue
  /\ lastOp.startRound >= 1
  /\ lastOp.round0 > lastOp.startRound
  /\ lastOp.round0 \in DOMAIN roundMultipliers
  /\ currentRound = lastOp.round0

\* C5 as stated: currentRound never decreases.
C5_RoundNeverDecreases == [][currentRound' >= currentRound]_vars

\* the step is a gap repair of the round synchronizer
GapRepairStep ==
  /\ lastOp'.op = "queue"
  /\ gamePhase \in Idle
  /\ Len(multiplierQueue') + 1 = Len(multiplierQueue) + Len(lastOp'.batch)
  /\ 0 < lastOp'.startRound /\ lastOp'.startRound < currentRound
  /\ currentRound \notin DOMAIN roundMultipliers'
  /\ currentRound' = lastOp'.startRound

\* C5 amended: currentRound never decreases, except that the gap repair of the
\* round synchronizer (an accepted POST /queue that finds the engine idle, leaves
\* the queue non-empty, carries 0 < startRound < currentRound and finds no
\* ledger entry for currentRound) sets it to startRound.
C5_RoundDecreasesOnlyByGapRepair ==
  [][currentRound' < currentRound => GapRepairStep]_vars

C5_Witness == lastOp.op = "queue" /\ 0 < currentRound /\ currentRound < lastOp.round0

\* C6: while the phase is flying, currentMultiplier <= crashPoint.
C6_FlyingBelowCrashPoint ==
  gamePhase = "flying" => currentMultiplier <= crashPoint

C6_Witness ==
  /\ gamePhase = "flying"
  /\ lastOp.op = "animation-tick"
  /\ ONE < currentMultiplier /\ currentMultiplier < crashPoint

C8_LedgerEntryOfCurrentRoundFixed ==
  [][(currentRound \in DOMAIN roundMultipliers)
       => /\ currentRound \in DOMAIN roundMultipliers'
          /\ roundMultipliers'[currentRound] = roundMultipliers[currentRound]]_vars

\* C9: when a play has dequeued an entry ingested as {multiplier: m,
\* round_number: r}, every round:crash it broadcasts carries round r and
\* crashPoint m.
C9_TaggedEntryRoundTrip ==
  \A i \in DOMAIN emitted :
    (emitted[i].type = "round:crash" /\ ~playTag.isNumber)
      => /\ emitted[i].round = playTag.round_number
         /\ emitted[i].crashPoint = playTag.multiplier

SentCrashes == CrashEvents(sent)

\* sent holds what a connection is sent: game:state, round:info and the info of
\* the phase (a request:state or a GET is answered with one message)
SentOnConnect == Len(sent) >= 2 /\ sent[1].type = "game:state"

\* C10: a viewer that connects while the phase is crashed is sent exactly one
\* round:crash, with the round and crashPoint of the most recent round:crash
\* broadcast.
C10_LateJoinerSeesBroadcastCrash ==
  (SentOnConnect /\ gamePhase = "crashed")
    => /\ Len(SentCrashes) = 1
       /\ SentCrashes[1].round = lastCrash.round
       /\ SentCrashes[1].crashPoint = lastCrash.crashPoint

C10_Witness == SentOnConnect /\ gamePhase = "crashed" /\ lastCrash.crashPoint # NULL

\* C11: during a play whose crash point is below 1.03, every
\* multiplier:update that is broadcast carries exactly the crash point (none
\* carries a value strictly between 1.00 and the crash point).
C11_LowCrashPointUpdatesOnlyCrashPoint ==
  (crashPoint # NULL /\ crashPoint < 103)
    => \A i \in DOMAIN emitted :
         emitted[i].type = "multiplier:update"
           => emitted[i].multiplier = crashPoint

\* C12: for every crash point C in 1.00 .. 2.00 and every progress k / GridSteps
\* in [0, 1], calculateMultiplier(progress, C) <= C, calculateMultiplier(0, C)
\* is 1.00 and calculateMultiplier(1, C) is exactly C.
C12_CurveBoundedAndExactAtEnds ==
  lastOp.op = "calculateMultiplier"
    => /\ currentMultiplier <= crashPoint
       /\ elapsed = 0 => currentMultiplier = ONE
       /\ elapsed = GridSteps => currentMultiplier = crashPoint

C12_Witness ==
  /\ lastOp.op = "calculateMultiplier"
  /\ 0 < elapsed /\ elapsed < GridSteps
  /\ ONE < currentMultiplier /\ currentMultiplier < crashPoint

\* the broadcasts evs never show less than what was on display before them
RECURSIVE NeverCountsDown(_, _)
NeverCountsDown(shown, evs) ==
  IF evs = << >> THEN TRUE
  ELSE LET e == Head(evs)
       IN  /\ e.type = "multiplier:update" => e.multiplier >= shown
           /\ e.type = "round:crash" => e.crashPoint >= shown
           /\ NeverCountsDown(Displayed(shown, << e >>), Tail(evs))

\* C13: within one play (from its round:start / round:flying on) every
\* multiplier:update carries at least the value of the update before it, the
\* first one at least 1.00, and the round:crash carries at least the last
\* update's value.
C13_DisplayNeverCountsDown ==
  [][NeverCountsDown(lastUpdate, emitted')]_vars

\* C14: a POST /trigger-next or POST /force-start handled while the phase is
\* betting or flying changes neither the phase, the crash point, the current
\* round, the queue nor the pending timers.
C14_ManualStartOnlyWhenIdle ==
  [][(lastOp'.op \in {"trigger-next", "force-start"}
        /\ gamePhase \in {"betting", "flying"})
       => UNCHANGED << gamePhase, crashPoint, currentRound, multiplierQueue,
                       timers >>]_vars

\* C15: a POST /queue with a wrong bearer token is answered 401, one with
\* multipliers missing or not an array is answered 400, and both leave the
\* queue, the ledger, currentRound, the phase, the crash point and all timers
\* unchanged.
C15_RejectedQueuePostChangesNothing ==
  [][(lastOp'.op \in {"queue", "queue-rejected"}
        /\ (~lastOp'.authorized \/ lastOp'.shape # "array"))
       => /\ lastOp'.status = (IF lastOp'.authorized THEN 400 ELSE 401)
          /\ UNCHANGED << multiplierQueue, roundMultipliers, currentRound,
                          gamePhase, crashPoint, timers >>]_vars

C15_Witness ==
  /\ lastOp.op = "queue-rejected"
  /\ lastOp.status = 401
  /\ lastOp.shape = "array" /\ Len(lastOp.batch) > 0
  /\ lastOp.phase0 \in Idle

C15_WitnessNotAnArray ==
  /\ lastOp.op = "queue-rejected"
  /\ lastOp.status = 400
  /\ lastOp.phase0 = "crashed" /\ lastOp.qlen0 > 0

\* C16: an accepted POST /queue handled while the phase is betting or flying
\* appends its values to the tail of the queue and writes its ledger entries,
\* and leaves currentRound, the phase, crashPoint, currentMultiplier and every
\* pending timer unchanged (the round synchronizer does not run).
C16_PostWhileRunningOnlyAppends ==
  [][(lastOp'.op = "queue" /\ requests' = requests + 1
        /\ gamePhase \in {"betting", "flying"})
       => /\ multiplierQueue' =
               multiplierQueue
                 \o [i \in DOMAIN lastOp'.batch |-> lastOp'.batch[i].multiplier]
          /\ roundMultipliers' =
               StoreRoundMultipliers(roundMultipliers, lastOp'.batch,
                                     lastOp'.startRound, Len(lastOp'.batch))
          /\ UNCHANGED << currentRound, gamePhase, crashPoint, currentMultiplier,
                          timers >>]_vars

\* a POST during flying whose startRound is ahead of currentRound
C16_Witness ==
  /\ lastOp.op = "queue"
  /\ lastOp.phase0 = "flying"
  /\ 0 < lastOp.round0 /\ lastOp.round0 < lastOp.startRound
  /\ Len(lastOp.batch) > 0
  /\ gamePhase = "flying" /\ currentRound = lastOp.round0

ObserverOps ==
  {"health", "debug", "current-state", "request:state", "request:round-info"}

\* the step is a GET /health, /debug, /current-state, or a viewer's connect,
\* request:state, request:round-info or disconnect
ObserverStep ==
  \/ clientStates' # clientStates
  \/ requests' = requests + 1 /\ lastOp'.op \in ObserverOps

\* C17: observer operations leave the queue, the ledger, currentRound, the
\* phase, currentMultiplier, crashPoint and the timers unchanged; a disconnect
\* removes only that viewer's entry of clientStates.
C17_ObserversChangeNothing ==
  [][ObserverStep
       => /\ UNCHANGED << multiplierQueue, roundMultipliers, currentRound,
                          gamePhase, currentMultiplier, crashPoint, timers >>
          /\ \A w \in (DOMAIN clientStates) \cap (DOMAIN clientStates') :
               clientStates'[w] = clientStates[w]
          /\ Cardinality((DOMAIN clientStates) \ (DOMAIN clientStates')) <= 1]_vars

\* a viewer has left while a round was flying
C17_Witness ==
  /\ gamePhase = "flying" /\ timers # << >>
  /\ NoSession
  /\ lastOp.op = "request:state"
  /\ sent = << >>

C17_WitnessHealth ==
  /\ gamePhase = "crashed"
  /\ lastOp.op = "health"
  /\ sent = << HealthResponse >>

\* the phase changes the fixed sequence betting, flying, crashed, wait excludes
BackwardEdges ==
  { << "betting", "wait" >>, << "flying", "wait" >>, << "flying", "betting" >>,
    << "wait", "flying" >>, << "betting", "crashed" >> }

\* C18: no step takes the phase from betting or flying back to wait or
\* betting, from wait directly to flying, or from betting directly to crashed
\* (a handler that passes through wait on its way from crashed to betting is
\* one step crashed -> betting and is not excluded).
C18_PhaseFollowsFixedSequence ==
  [][<< gamePhase, gamePhase' >> \notin BackwardEdges]_vars

TimerKinds == {"betting", "animation", "wait"}

Pending(kind) == {i \in DOMAIN timers : timers[i].kind = kind}

\* C19: at most one betting timer, at most one animation interval and at most
\* one wait timer is pending, and every pending timer is still referenced by
\* its handle variable (no handle was overwritten while its timer was
\* pending).
C19_OneTimerPerPurpose ==
  /\ \A kind \in TimerKinds : Cardinality(Pending(kind)) <= 1
  /\ \A i \in DOMAIN timers : timers[i].held

\* C20: once the shutdown handler has run cleanup(), no betting timer,
\* animation interval or wait timer is pending.
C20_NoTimerAfterShutdown ==
  closing => timers = << >>

\* the event that tells a joining viewer the phase
PhaseInfoType ==
  [betting |-> "round:start", flying |-> "round:flying", crashed |-> "round:crash"]

SentPhaseInfo ==
  SelectSeq(sent, LAMBDA e : e.type \in {"round:start", "round:flying", "round:crash"})

C21_WitnessWait ==
  SentOnConnect /\ gamePhase = "wait" /\ currentRound > 0 /\ Len(sent) = 2

\* C22: a round that is flying crashes: no animation tick that fires MaxElapsed
\* milliseconds after the start of the flying phase (later than every jittered
\* duration of the crash points considered) leaves the phase flying.
C22_FlyingRoundCrashes ==
  ~(gamePhase = "flying" /\ lastOp.op = "animation-tick" /\ elapsed >= MaxElapsed)

\* the step starts a round: it broadcasts round:start and schedules a timer
StartsRound == StartEvents(emitted') # << >> /\ timers' # timers

\* the queue startNextRound finds: with the batch of the request appended
QueueAtStart ==
  IF lastOp'.op = "queue" /\ requests' = requests + 1
  THEN multiplierQueue \o [i \in DOMAIN lastOp'.batch |-> lastOp'.batch[i].multiplier]
  ELSE multiplierQueue

\* C23: a step that starts a round takes as crash point the ledger entry of
\* the round it starts if there is one and the head of the queue otherwise,
\* removes exactly the head of the queue, and resets currentMultiplier to 1.00.
C23_CrashPointFromLedgerElseQueueHead ==
  [][StartsRound
       => /\ QueueAtStart # << >>
          /\ crashPoint' = (IF currentRound' \in DOMAIN roundMultipliers'
                            THEN roundMultipliers'[currentRound']
                            ELSE Head(QueueAtStart))
          /\ multiplierQueue' = Tail(QueueAtStart)
          /\ currentMultiplier' = ONE
          /\ StartEvents(emitted')[1].round = currentRound'
          /\ StartEvents(emitted')[1].crashPoint = crashPoint']_vars

\* a round was started from the queue head for want of a ledger entry
C23_Witness ==
  /\ StartEvents(emitted) # << >>
  /\ gamePhase = "betting"
  /\ currentRound \notin DOMAIN roundMultipliers
  /\ crashPoint = playTag.multiplier

\* a round was started from a ledger entry that differs from the queue head
C23_WitnessLedger ==
  /\ StartEvents(emitted) # << >>
  /\ gamePhase = "betting"
  /\ currentRound \in DOMAIN roundMultipliers
  /\ crashPoint = roundMultipliers[currentRound]
  /\ crashPoint # playTag.multiplier

\* C24: the value a round start removes from the head of the queue is the
\* value it chose as the crash point of the round.
C24_RemovedValueIsCrashPoint ==
  StartEvents(emitted) # << >> => crashPoint = playTag.multiplier

\* C25: the queue changes only by an accepted POST /queue appending its
\* batch at the tail, in batch order, and by a round start removing the head;
\* the number of multipliers ingested minus the number of rounds started is
\* the length of the queue.
C25_QueueIsFifoAndBalanced ==
  [][/\ multiplierQueue' = (IF StartsRound THEN Tail(QueueAtStart) ELSE QueueAtStart)
     /\ unplayed' = Len(multiplierQueue')]_vars

\* the wait timer has started a round with more values left in the queue
C25_Witness ==
  /\ lastOp.op = "wait-timer"
  /\ StartEvents(emitted) # << >>
  /\ Len(multiplierQueue) >= 2
  /\ unplayed = Len(multiplierQueue)

\* C26: a POST /queue with startRound 3 that arrives while round 1 is in
\* betting or flying is synchronized when the engine is next idle: the round
\* counter, 2 after round 1, is behind 3 and catches up, so the round:start
\* after round 1 carries round 3.
C26_DeferredSyncApplied ==
  Len(StartEvents(trace)) >= 2
    => StartEvents(trace)[2].round =
         SyncRound([currentRound |-> StartEvents(trace)[1].round + 1,
                    roundMultipliers |-> roundMultipliers],
                   DeferredStartRound)

\* C27: the round:flying, every multiplier:update and the round:crash that
\* follow a round:start carry the round of that round:start, and round:flying
\* and round:crash carry its crashPoint.
C27_PlayKeepsRoundAndCrashPoint ==
  \A i \in DOMAIN emitted :
    /\ emitted[i].type \in {"round:flying", "multiplier:update", "round:crash"}
         => emitted[i].round = lastStart.round
    /\ emitted[i].type \in {"round:flying", "round:crash"}
         => emitted[i].crashPoint = lastStart.crashPoint

\* the broadcasts evs never repeat the value of the update before them
RECURSIVE NoRepeatedUpdate(_, _)
NoRepeatedUpdate(shown, evs) ==
  IF evs = << >> THEN TRUE
  ELSE LET e == Head(evs)
       IN  /\ (e.type = "multiplier:update" /\ shown > ONE) => e.multiplier # shown
           /\ NoRepeatedUpdate(Displayed(shown, << e >>), Tail(evs))

\* C28: within one play no two consecutive multiplier:update events carry the
\* same multiplier (an update is broadcast only when the hundredths value
\* differs from the last one broadcast).  A step that runs a timer callback
\* changes the pending timers; the others broadcast no update.
C28_NoTwoEqualConsecutiveUpdates ==
  [][timers' # timers => NoRepeatedUpdate(lastUpdate, emitted')]_vars

\* the ledger holds the crash point under the current round
LedgerHoldsCrashPoint ==
  /\ currentRound \in DOMAIN roundMultipliers
  /\ roundMultipliers[currentRound] = crashPoint

\* C29: the step that broadcasts round:crash leaves the phase crashed,
\* currentMultiplier equal to crashPoint, the crash point stored in the ledger
\* under currentRound, the animation handle null with the interval it named
\* cancelled, and a wait timer of WAIT_PHASE_DURATION pending under waitTimer;
\* the event carries currentRound and crashPoint.  In every state with phase
\* crashed the ledger entry of currentRound equals crashPoint.
C29_CrashRoundEffects ==
  /\ CrashEvents(emitted) # << >> =>
        LET e == CrashEvents(emitted)[Len(CrashEvents(emitted))]
        IN  /\ gamePhase = "crashed"
            /\ currentMultiplier = crashPoint
            /\ LedgerHoldsCrashPoint
            /\ ~simulationInterval
            /\ \A i \in DOMAIN timers :
                  ~(timers[i].kind = "animation" /\ timers[i].held)
            /\ waitTimer
            /\ \E i \in DOMAIN timers :
                  /\ timers[i].kind = "wait"
                  /\ timers[i].held
                  /\ timers[i].rem = WAIT_PHASE_DURATION
            /\ e.round = currentRound
            /\ e.crashPoint = crashPoint
  /\ gamePhase = "crashed" => LedgerHoldsCrashPoint

\* a round whose crash point was taken from the queue head has just crashed
C29_Witness ==
  /\ CrashEvents(emitted) # << >>
  /\ gamePhase = "crashed"
  /\ lastOp.op = "animation-tick"
  /\ playTag.isNumber
  /\ playTag.multiplier = crashPoint

\* the crashed phase some time after the crash
C29_WitnessLater ==
  /\ gamePhase = "crashed"
  /\ lastOp.op = "advance"
  /\ emitted = << >>

\* the step runs the callback of a wait timer
WaitTimerFired == lastOp'.op = "wait-timer" /\ timers' # timers

\* the step handles an accepted POST /queue
Ingests == lastOp'.op = "queue" /\ requests' = requests + 1

\* C30: when the wait timer of a crashed round fires, currentRound increases
\* by exactly 1 and the next round starts in that step if and only if the
\* queue is non-empty; otherwise the phase is wait, and with an empty queue
\* the phase leaves wait only in a step that ingests a batch.
C30_WaitTimerAdvancesOnce ==
  [][/\ WaitTimerFired =>
          /\ currentRound' = currentRound + 1
          /\ StartEvents(emitted') # << >> <=> multiplierQueue # << >>
          /\ multiplierQueue = << >> => gamePhase' = "wait"
     /\ (gamePhase = "wait" /\ multiplierQueue = << >> /\ gamePhase' # "wait")
          => Ingests]_vars

\* C31 (first half): while the server runs there is no state in which the
\* queue is non-empty, the phase is wait and no timer is pending.
C31_NoStallWithWorkPending ==
  ~(/\ ~closing
    /\ multiplierQueue # << >>
    /\ gamePhase = "wait"
    /\ timers = << >>)

\* C31 (second half): every ingested multiplier is removed from the queue by
\* a round start; in particular no round is still flying, with a multiplier
\* waiting in the queue, MaxElapsed ms into its flight (every timeToCrash of
\* the model is shorter, and from there on each tick repeats the same state).
C31_QueuedMultiplierIsPlayed ==
  ~(/\ gamePhase = "flying"
    /\ multiplierQueue # << >>
    /\ lastOp.op = "animation-tick"
    /\ elapsed >= MaxElapsed)

\* the broadcast that announces the entry into a phase
PhaseEvent ==
  [betting |-> "round:start", flying |-> "round:flying", crashed |-> "round:crash"]

\* the step enters phase ph
Enters(ph) == gamePhase # ph /\ gamePhase' = ph

\* the step broadcasts the event of phase ph with the round and crash point
\* of the state it leads to
Announces(ph) ==
  \E i \in DOMAIN emitted' :
    /\ emitted'[i].type = PhaseEvent[ph]
    /\ emitted'[i].round = currentRound'
    /\ emitted'[i].crashPoint = crashPoint'

\* C32: each entry into betting, flying or crashed broadcasts round:start,
\* round:flying or round:crash in the same step, carrying the currentRound
\* and crashPoint of the state entered; and a step that broadcasts
\* round:flying or round:crash enters that phase (round:start is broadcast by
\* startNextRound only, which assigns the phase betting after its callers
\* assigned wait).
C32_TransitionsAreBroadcast ==
  [][/\ \A ph \in DOMAIN PhaseEvent : Enters(ph) => Announces(ph)
     /\ timers' # timers =>
          \A i \in DOMAIN emitted' :
            /\ emitted'[i].type = "round:start" => gamePhase' = "betting"
            /\ \A ph \in {"flying", "crashed"} :
                  emitted'[i].type = PhaseEvent[ph] => Enters(ph)]_vars

\* C32 (first half): each entry into betting, flying or crashed broadcasts
\* its event with the round and crash point of the state entered.
C32_EntriesAreAnnounced ==
  [][\A ph \in DOMAIN PhaseEvent : Enters(ph) => Announces(ph)]_vars

\* C33: in every state with phase betting, flying or crashed, crashPoint is
\* a value contained in some accepted POST /queue batch, and every round:crash
\* broadcast carries such a value.
C33_OutcomeWasSupplied ==
  /\ gamePhase \in {"betting", "flying", "crashed"} => crashPoint \in supplied
  /\ \A i \in DOMAIN emitted :
       emitted[i].type = "round:crash" => emitted[i].crashPoint \in supplied

\* a round whose crash point was taken from the queue head has crashed, after
\* two different values were supplied
C33_Witness ==
  /\ CrashEvents(emitted) # << >>
  /\ gamePhase = "crashed"
  /\ playTag.isNumber
  /\ playTag.multiplier = crashPoint
  /\ Cardinality(supplied) >= 2

\* a round has been started before
Played == lastStart.crashPoint # 0

\* C34: between a round:start and the next round:start there is exactly one
\* round:crash: no play crashes twice (crashRound is not called again by an
\* interval that is still running), and a round:start is broadcast only after
\* the play before it has crashed.
C34_EachPlayCrashesOnce ==
  [][/\ playCrashes' <= 1
     /\ (timers' # timers /\ StartEvents(emitted') # << >> /\ Played)
          => playCrashes = 1]_vars

\* the step handles POST /trigger-next, or POST /queue whose startRound is
\* missing or not larger than the current round
RequestWithoutLargerStartRound ==
  /\ requests' = requests + 1
  /\ \/ lastOp'.op = "trigger-next"
     \/ lastOp'.op = "queue" /\ lastOp'.startRound <= currentRound

\* C35: when POST /trigger-next, or POST /queue without a larger startRound,
\* starts a round while the phase is crashed for round r, the round started
\* has a number greater than r and its crash point is the value at the head
\* of the queue.
C35_CrashedRoundIsNotReplayed ==
  [][(gamePhase = "crashed" /\ RequestWithoutLargerStartRound /\ StartsRound)
       => /\ currentRound' > currentRound
          /\ crashPoint' = Head(QueueAtStart)]_vars

====
